---- MODULE Spec2Model ----
(***************************************************************************)
(* Model of static/sw.js: a service worker whose install listener opens   *)
(* the cache partition expense-cache-v1 and preloads two URLs into it     *)
(* with cache.addAll, and whose fetch listener answers each intercepted   *)
(* request with caches.match(request) or, on a miss, fetch(request).      *)
(* The host operations (caches.open, cache.addAll, caches.match, fetch,   *)
(* waitUntil, respondWith) are asynchronous: each is a step that starts   *)
(* the operation and a later step in which it settles, so the handlers of *)
(* fetch events interleave with each other and with an install.           *)
(***************************************************************************)
EXTENDS Integers, Sequences, FiniteSets, TLC

\* ---- bounds -------------------------------------------------------------
MaxInstalls == 2
MaxFetches == 2
\* installs that run in the specification with fairness
MaxFairInstalls == 1

InstallIds == 1..MaxInstalls
FetchIds == 1..MaxFetches

\* ---- literals of the script ---------------------------------------------
CACHE_NAME == "expense-cache-v1"
PreloadUrls == <<"/", "/static/style.css">>
PreloadSet == {PreloadUrls[k] : k \in 1..Len(PreloadUrls)}

\* ---- the host environment -----------------------------------------------
\* Another partition of the same origin, left by a prior version of the
\* worker (so created before expense-cache-v1); the script never opens it.
OtherCache == "other-cache"
CacheNames == {CACHE_NAME, OtherCache}

Urls == PreloadSet
\* the requests the pages send: a GET of a preloaded url, and a POST of
\* the same url, which no stored entry matches
Requests == {[method |-> "GET", url |-> "/"],
             [method |-> "POST", url |-> "/"]}

Resp(s, b) == [kind |-> "response", status |-> s, body |-> b]
NetError == [kind |-> "error", status |-> 0, body |-> ""]
Undefined == [kind |-> "undefined", status |-> 0, body |-> ""]
Pending == [kind |-> "pending", status |-> 0, body |-> ""]
Stale == Resp(200, "v0")
NotFound == Resp(404, "nf")
\* The content the network serves changes between installs: the ok response
\* an install's preload fetch can get carries that install's version; a
\* fetch handler's network fetch gets the live content.
Version(i) == Resp(200, "v" \o ToString(i))
Live == Resp(200, "live")
\* what a network fetch can settle with: a response of either status, or a
\* rejection (network unreachable)
PreloadOutcomes(i) == {Version(i), NotFound, NetError}
NetOutcomes == {Live, NotFound, NetError}

IsResponse(o) == o.kind = "response"
\* Response.ok
Ok(o) == IsResponse(o) /\ o.status >= 200 /\ o.status <= 299

EmptyEntries == [u \in {} |-> Undefined]
OtherEntries == [u \in {"/"} |-> Stale]

VARIABLES
  cacheNames,   \* the origin's partitions, in creation order
  store,        \* partition name -> (url of a GET request -> stored response)
  installs,     \* install id -> state of that install event's handler
  fetches       \* fetch id -> state of that fetch event's handler

vars == <<cacheNames, store, installs, fetches>>

Has(seq, x) == \E k \in 1..Len(seq) : seq[k] = x

\* ---- caches.match(request) ----------------------------------------------
\* Cache matching: a stored entry matches a request when the request's
\* method is GET and the URLs are equal (no ignoreMethod/ignoreSearch).
RequestMatches(req, key) == req.method = "GET" /\ req.url = key

\* cache.match on one partition
CacheMatch(entries, req) ==
  IF \E k \in DOMAIN entries : RequestMatches(req, k)
    THEN entries[CHOOSE k \in DOMAIN entries : RequestMatches(req, k)]
    ELSE Undefined

\* caches.match: CacheStorage.match consults every partition of the origin
\* in creation order and yields the first match, or undefined.
RECURSIVE CachesMatch(_, _, _)
CachesMatch(names, st, req) ==
  IF names = <<>> THEN Undefined
  ELSE LET r == CacheMatch(st[Head(names)], req)
       IN IF r # Undefined THEN r ELSE CachesMatch(Tail(names), st, req)

\* ---- caches.open(CACHE_NAME) --------------------------------------------
\* opens the partition, creating it (empty, last in creation order) if absent
OpenNames(names) == IF Has(names, CACHE_NAME) THEN names ELSE Append(names, CACHE_NAME)

\* ---- cache.addAll([...]) ------------------------------------------------
\* addAll rejects when any fetch rejects or yields a response that is not ok
AddAllFails(got) == \E u \in PreloadSet : got[u] # Pending /\ ~Ok(got[u])
AddAllReadyAnyOk(got) ==
  /\ \A u \in PreloadSet : got[u] # Pending
  /\ \E u \in PreloadSet : Ok(got[u])
AddAllReadyAnyResponse(got) == \A u \in PreloadSet : IsResponse(got[u])
AddAllReady(got) == \A u \in PreloadSet : Ok(got[u])
BatchPutFirstOnly(entries, got) ==
  [u \in (DOMAIN entries) \cup {PreloadUrls[1]} |->
     IF u = PreloadUrls[1] THEN got[u] ELSE entries[u]]
\* the batch of put operations: every preload url gets the fetched response,
\* replacing an entry of the same key
BatchPut(entries, got) ==
  [u \in (DOMAIN entries) \cup PreloadSet |->
     IF u \in PreloadSet THEN got[u] ELSE entries[u]]

\* ---- resp || fetch(event.request) ---------------------------------------
\* a Response object is truthy, undefined is falsy
Truthy(resp) == resp # Undefined
\* the request handed to fetch() on a miss
NetworkRequest(req) == req
RespondWithOkOnly(outcome) ==
  IF IsResponse(outcome) /\ ~Ok(outcome) THEN Resp(200, "fallback") ELSE outcome
RespondWithCatch(outcome) ==
  IF outcome = NetError THEN Resp(503, "offline") ELSE outcome
\* what respondWith settles with when the network fetch settles
RespondWith(outcome) == outcome

NoRequest == [method |-> "", url |-> ""]
IdleInstall == [pc |-> "idle", got |-> [u \in PreloadSet |-> Pending],
                stored |-> {}, keysAtOpen |-> {}]
IdleFetch == [pc |-> "idle", req |-> NoRequest, seen |-> {}, answer |-> Pending,
              netCalls |-> 0, netReq |-> NoRequest, netOut |-> Pending]

Init ==
  /\ cacheNames \in {<<>>, <<OtherCache>>}
  /\ store = [n \in CacheNames |->
                IF n = OtherCache /\ Has(cacheNames, OtherCache)
                  THEN OtherEntries ELSE EmptyEntries]
  /\ installs = [i \in InstallIds |-> IdleInstall]
  /\ fetches = [f \in FetchIds |-> IdleFetch]

\* ---- install listener ---------------------------------------------------
\* the install event is dispatched: the listener calls caches.open and hands
\* the promise chain to event.waitUntil. The host runs the install jobs of a
\* registration one at a time, so an install starts only when the one
\* before it has ended; fetch events are dispatched at any time.
InstallEvent(i) ==
  /\ installs[i].pc = "idle"
  /\ i > 1 => installs[i - 1].pc \in {"installed", "redundant"}
  /\ installs' = [installs EXCEPT ![i].pc = "open"]
  /\ UNCHANGED <<cacheNames, store, fetches>>

OpenDoneFresh(i) ==
  /\ installs[i].pc = "open"
  /\ cacheNames' = OpenNames(cacheNames)
  /\ store' = [store EXCEPT ![CACHE_NAME] = EmptyEntries]
  /\ installs' = [installs EXCEPT ![i].pc = "addAll",
                                  ![i].keysAtOpen = DOMAIN store[CACHE_NAME]]
  /\ UNCHANGED fetches

\* caches.open settles: the partition exists now, and the then-callback
\* calls cache.addAll, which issues one fetch per preload url
OpenDone(i) ==
  /\ installs[i].pc = "open"
  /\ cacheNames' = OpenNames(cacheNames)
  /\ installs' = [installs EXCEPT ![i].pc = "addAll",
                                  ![i].keysAtOpen = DOMAIN store[CACHE_NAME]]
  /\ UNCHANGED <<store, fetches>>

\* caches.open rejects (the host cannot provide storage)
OpenFail(i) ==
  /\ installs[i].pc = "open"
  /\ installs' = [installs EXCEPT ![i].pc = "rejected"]
  /\ UNCHANGED <<cacheNames, store, fetches>>

PreloadRespondAndPut(i, u, o) ==
  /\ installs[i].pc = "addAll"
  /\ installs[i].got[u] = Pending
  /\ o \in PreloadOutcomes(i)
  /\ installs' = [installs EXCEPT ![i].got[u] = o]
  /\ store' = IF Ok(o)
                THEN [store EXCEPT ![CACHE_NAME] =
                        [k \in (DOMAIN @) \cup {u} |-> IF k = u THEN o ELSE @[k]]]
                ELSE store
  /\ UNCHANGED <<cacheNames, fetches>>

\* one of addAll's fetches settles
PreloadRespond(i, u, o) ==
  /\ installs[i].pc = "addAll"
  /\ installs[i].got[u] = Pending
  /\ o \in PreloadOutcomes(i)
  /\ installs' = [installs EXCEPT ![i].got[u] = o]
  /\ UNCHANGED <<cacheNames, store, fetches>>

AddAllCommitExclusive(i) ==
  /\ installs[i].pc = "addAll"
  /\ AddAllReady(installs[i].got)
  /\ IF DOMAIN store[CACHE_NAME] \cap PreloadSet = {}
       THEN /\ store' = [store EXCEPT ![CACHE_NAME] = BatchPut(@, installs[i].got)]
            /\ installs' = [installs EXCEPT ![i].pc = "fulfilled",
                                            ![i].stored = PreloadSet]
       ELSE /\ store' = store
            /\ installs' = [installs EXCEPT ![i].pc = "rejected"]
  /\ UNCHANGED <<cacheNames, fetches>>

AddAllCommitOneByOne(i) ==
  /\ installs[i].pc = "addAll"
  /\ AddAllReady(installs[i].got)
  /\ \E u \in PreloadSet \ installs[i].stored :
       /\ store' = [store EXCEPT ![CACHE_NAME] =
                      [k \in (DOMAIN @) \cup {u} |->
                         IF k = u THEN installs[i].got[u] ELSE @[k]]]
       /\ installs' = [installs EXCEPT
                         ![i].stored = @ \cup {u},
                         ![i].pc = IF installs[i].stored \cup {u} = PreloadSet
                                     THEN "fulfilled" ELSE "addAll"]
  /\ UNCHANGED <<cacheNames, fetches>>

\* every fetch of addAll yielded an ok response: the batch is put and the
\* promise given to waitUntil fulfils
AddAllCommit(i) ==
  /\ installs[i].pc = "addAll"
  /\ AddAllReady(installs[i].got)
  /\ store' = [store EXCEPT ![CACHE_NAME] = BatchPut(@, installs[i].got)]
  /\ installs' = [installs EXCEPT ![i].pc = "fulfilled",
                                  ![i].stored = PreloadSet]
  /\ UNCHANGED <<cacheNames, fetches>>

\* a fetch of addAll failed: addAll rejects, nothing is put
AddAllReject(i) ==
  /\ installs[i].pc = "addAll"
  /\ AddAllFails(installs[i].got)
  /\ installs' = [installs EXCEPT ![i].pc = "rejected"]
  /\ UNCHANGED <<cacheNames, store, fetches>>

WaitUntilIgnored(inst) == inst.pc \in {"open", "addAll", "fulfilled", "rejected"}
\* event.waitUntil: the host ends the install once the promise has settled
WaitUntilSettled(inst) == inst.pc \in {"fulfilled", "rejected"}

InstallSettle(i) ==
  /\ WaitUntilSettled(installs[i])
  /\ installs' = [installs EXCEPT ![i].pc =
                    IF installs[i].pc = "fulfilled" THEN "installed" ELSE "redundant",
                                  ![i].got = [u \in PreloadSet |-> Pending]]
  /\ UNCHANGED <<cacheNames, store, fetches>>

\* ---- fetch listener -----------------------------------------------------
\* a fetch event is dispatched: the listener calls caches.match and hands
\* the promise chain to event.respondWith
FetchEvent(f, req) ==
  /\ fetches[f].pc = "idle"
  /\ f > 1 => fetches[f - 1].pc # "idle"
  /\ fetches' = [fetches EXCEPT ![f].pc = "match", ![f].req = req]
  /\ UNCHANGED <<cacheNames, store, installs>>

\* every stored entry that matches the request, as <<partition, response>>
Matching(names, st, req) ==
  {<<p[1], st[p[1]][p[2]]>> : p \in {q \in CacheNames \X Urls :
       Has(names, q[1]) /\ q[2] \in DOMAIN st[q[1]] /\ RequestMatches(req, q[2])}}

MatchHitRevalidate(f) ==
  /\ fetches[f].pc = "match"
  /\ LET resp == CachesMatch(cacheNames, store, fetches[f].req)
     IN /\ Truthy(resp)
        /\ fetches' = [fetches EXCEPT ![f].pc = "answered", ![f].answer = resp,
                         ![f].netCalls = @ + 1,
                         ![f].netReq = NetworkRequest(fetches[f].req),
                         ![f].seen = Matching(cacheNames, store, fetches[f].req)]
  /\ UNCHANGED <<cacheNames, store, installs>>

MatchHitBlocking(f) ==
  /\ fetches[f].pc = "match"
  /\ \A g \in FetchIds \ {f} : fetches[g].pc \notin {"fetch", "hung"}
  /\ LET resp == CachesMatch(cacheNames, store, fetches[f].req)
     IN /\ Truthy(resp)
        /\ fetches' = [fetches EXCEPT ![f].pc = "answered", ![f].answer = resp,
                         ![f].seen = Matching(cacheNames, store, fetches[f].req)]
  /\ UNCHANGED <<cacheNames, store, installs>>

\* caches.match settles with a response: respondWith settles with it
MatchHit(f) ==
  /\ fetches[f].pc = "match"
  /\ LET resp == CachesMatch(cacheNames, store, fetches[f].req)
     IN /\ Truthy(resp)
        /\ fetches' = [fetches EXCEPT ![f].pc = "answered", ![f].answer = resp,
                         ![f].seen = Matching(cacheNames, store, fetches[f].req)]
  /\ UNCHANGED <<cacheNames, store, installs>>

MatchMissShared(f) ==
  /\ fetches[f].pc = "match"
  /\ ~Truthy(CachesMatch(cacheNames, store, fetches[f].req))
  /\ LET latest == CHOOSE g \in FetchIds :
                     /\ fetches[g].pc # "idle"
                     /\ \A h \in FetchIds : fetches[h].pc # "idle" => h <= g
     IN fetches' = [fetches EXCEPT ![f].pc = "fetch",
                      ![f].netCalls = @ + 1,
                      ![f].netReq = NetworkRequest(fetches[latest].req),
                      ![f].seen = Matching(cacheNames, store, fetches[f].req)]
  /\ UNCHANGED <<cacheNames, store, installs>>

\* caches.match settles with undefined: the callback calls fetch(event.request)
MatchMiss(f) ==
  /\ fetches[f].pc = "match"
  /\ ~Truthy(CachesMatch(cacheNames, store, fetches[f].req))
  /\ fetches' = [fetches EXCEPT ![f].pc = "fetch",
                   ![f].netCalls = @ + 1,
                   ![f].netReq = NetworkRequest(fetches[f].req),
                   ![f].seen = Matching(cacheNames, store, fetches[f].req)]
  /\ UNCHANGED <<cacheNames, store, installs>>

NetRespondAndCache(f, o) ==
  /\ fetches[f].pc = "fetch"
  /\ LET r == RespondWith(o)
     IN fetches' = [fetches EXCEPT ![f].netOut = o,
                      ![f].answer = r,
                      ![f].pc = IF IsResponse(r) THEN "answered" ELSE "rejected"]
  /\ IF Ok(o) /\ fetches[f].req.method = "GET"
       THEN /\ cacheNames' = OpenNames(cacheNames)
            /\ store' = [store EXCEPT ![CACHE_NAME] =
                           [k \in (DOMAIN @) \cup {fetches[f].req.url} |->
                              IF k = fetches[f].req.url THEN o ELSE @[k]]]
       ELSE UNCHANGED <<cacheNames, store>>
  /\ UNCHANGED installs

NetRespondRetry(f, o) ==
  /\ fetches[f].pc = "fetch"
  /\ IF o = NetError /\ fetches[f].netCalls < 2
       THEN fetches' = [fetches EXCEPT ![f].netCalls = @ + 1]
       ELSE LET r == RespondWith(o)
            IN fetches' = [fetches EXCEPT ![f].netOut = o,
                             ![f].answer = r,
                             ![f].pc = IF IsResponse(r) THEN "answered" ELSE "rejected"]
  /\ UNCHANGED <<cacheNames, store, installs>>

\* the network fetch settles; the promise given to respondWith follows it
NetRespond(f, o) ==
  /\ fetches[f].pc = "fetch"
  /\ LET r == RespondWith(o)
     IN fetches' = [fetches EXCEPT ![f].netOut = o,
                      ![f].answer = r,
                      ![f].pc = IF IsResponse(r) THEN "answered" ELSE "rejected"]
  /\ UNCHANGED <<cacheNames, store, installs>>

\* the network never answers this fetch: no timeout is set, so the promise
\* given to respondWith stays pending
NetHang(f) ==
  /\ fetches[f].pc = "fetch"
  /\ fetches' = [fetches EXCEPT ![f].pc = "hung"]
  /\ UNCHANGED <<cacheNames, store, installs>>

Next ==
  \/ \E i \in InstallIds : InstallEvent(i)
  \/ \E i \in InstallIds : OpenDone(i)
  \/ \E i \in InstallIds : OpenFail(i)
  \/ \E i \in InstallIds, u \in PreloadSet, o \in NetOutcomes \cup {Version(j) : j \in InstallIds} : PreloadRespond(i, u, o)
  \/ \E i \in InstallIds : AddAllCommit(i)
  \/ \E i \in InstallIds : AddAllReject(i)
  \/ \E i \in InstallIds : InstallSettle(i)
  \/ \E f \in FetchIds, req \in Requests : FetchEvent(f, req)
  \/ \E f \in FetchIds : MatchHit(f)
  \/ \E f \in FetchIds : MatchMiss(f)
  \/ \E f \in FetchIds, o \in NetOutcomes : NetRespond(f, o)
  \/ \E f \in FetchIds : NetHang(f)

Spec == Init /\ [][Next]_vars

\* The event loop runs every settled promise's callback, and a network
\* fetch that does not hang settles: each handler's lookup step and network
\* step is taken if it stays enabled. Nothing obliges an event to arrive or
\* an install to proceed.
\* (The three steps of a handler are enabled at different positions of it,
\* so fairness of each is fairness of their disjunction.)
HandlerStep(f) ==
  MatchHit(f) \/ MatchMiss(f) \/ \E o \in NetOutcomes : NetRespond(f, o)
\* the same steps, with the installs that run bounded by MaxFairInstalls
FairNext ==
  \/ \E i \in 1..MaxFairInstalls : InstallEvent(i)
  \/ \E i \in 1..MaxFairInstalls : OpenDone(i)
  \/ \E i \in 1..MaxFairInstalls : OpenFail(i)
  \/ \E i \in 1..MaxFairInstalls, u \in PreloadSet,
          o \in NetOutcomes \cup {Version(j) : j \in InstallIds} : PreloadRespond(i, u, o)
  \/ \E i \in 1..MaxFairInstalls : AddAllCommit(i)
  \/ \E i \in 1..MaxFairInstalls : AddAllReject(i)
  \/ \E i \in 1..MaxFairInstalls : InstallSettle(i)
  \/ \E f \in FetchIds, req \in Requests : FetchEvent(f, req)
  \/ \E f \in FetchIds : MatchHit(f)
  \/ \E f \in FetchIds : MatchMiss(f)
  \/ \E f \in FetchIds, o \in NetOutcomes : NetRespond(f, o)
  \/ \E f \in FetchIds : NetHang(f)

FairSpec ==
  /\ Init /\ [][FairNext]_vars
  /\ \A f \in FetchIds : WF_vars(HandlerStep(f))

\* ---- properties ---------------------------------------------------------
Pos(seq, x) == CHOOSE k \in 1..Len(seq) : seq[k] = x
LookedUp(f) == fetches[f].pc \in {"fetch", "hung", "answered", "rejected"}
Settled(f) == fetches[f].pc \in {"answered", "rejected"}
Hit(f) == LookedUp(f) /\ fetches[f].seen # {}
Miss(f) == LookedUp(f) /\ fetches[f].seen = {}
PreloadFailed(inst) == \E u \in PreloadSet : inst.got[u] # Pending /\ ~Ok(inst.got[u])

\* C1: a request that matched a stored entry when it was looked up is
\* answered with that entry's stored response (of the earliest created
\* partition holding a match) and no network fetch is issued for it.
C1_HitServedFromCache ==
  \A f \in FetchIds :
    fetches[f].seen # {} =>
      /\ fetches[f].pc = "answered"
      /\ fetches[f].netCalls = 0
      /\ fetches[f].netReq = NoRequest
      /\ \E p \in fetches[f].seen :
            /\ fetches[f].answer = p[2]
            /\ \A q \in fetches[f].seen : Pos(cacheNames, p[1]) <= Pos(cacheNames, q[1])

\* a hit on the preloaded entry, whose stored response differs from every
\* response the network returns to a fetch handler
C1_Witness ==
  \E f \in FetchIds :
    /\ fetches[f].pc = "answered"
    /\ fetches[f].seen = {<<CACHE_NAME, Version(1)>>}
    /\ fetches[f].answer = Version(1)

\* C2: a request that matched no stored entry is sent to the network once,
\* as the identical request, and is answered with what that fetch yields,
\* unmodified, whatever the status.
C2_MissServedFromNetwork ==
  \A f \in FetchIds :
    Miss(f) =>
      /\ fetches[f].netCalls = 1
      /\ fetches[f].netReq = fetches[f].req
      /\ Settled(f) =>
            /\ fetches[f].netOut \in NetOutcomes
            /\ fetches[f].answer = fetches[f].netOut
            /\ IsResponse(fetches[f].netOut) => fetches[f].pc = "answered"

C2_Witness ==
  \E f \in FetchIds :
    /\ Miss(f)
    /\ fetches[f].pc = "answered"
    /\ fetches[f].req.method = "POST"
    /\ fetches[f].answer = NotFound

\* C3: once an install has completed successfully, the partition
\* expense-cache-v1 exists and its keys are exactly the two preload urls.
C3_InstalledExactlyPreload ==
  \A i \in InstallIds :
    installs[i].pc \in {"fulfilled", "installed"} =>
      /\ Has(cacheNames, CACHE_NAME)
      /\ DOMAIN store[CACHE_NAME] = PreloadSet

\* the second install succeeded after fetch events were handled
C3_Witness ==
  /\ installs[2].pc = "installed"
  /\ \E f \in FetchIds : Settled(f) /\ Miss(f)
  /\ DOMAIN store[CACHE_NAME] = {"/", "/static/style.css"}

\* C4: an install one of whose preload fetches failed never fulfils and
\* never writes: it only goes on to rejected and redundant, its failed
\* fetch is not reissued, and every step that changes the partitions is
\* taken by an install all of whose preload fetches were ok.
C4_FailedState ==
  \A i \in InstallIds :
    /\ PreloadFailed(installs[i]) =>
          installs[i].pc \in {"addAll", "rejected"} /\ installs[i].stored = {}
    /\ installs[i].pc \in {"rejected", "redundant"} => installs[i].stored = {}
C4_FailedStep ==
  \A i \in InstallIds :
    /\ (PreloadFailed(installs[i]) /\ installs'[i] # installs[i]) =>
          /\ store' = store /\ cacheNames' = cacheNames
          /\ \/ installs'[i].pc = "redundant"
             \/ /\ installs'[i].pc \in {"addAll", "rejected"}
                /\ \A u \in PreloadSet :
                      installs[i].got[u] # Pending => installs'[i].got[u] = installs[i].got[u]
    /\ (installs'[i] # installs[i] /\ store' # store) =>
          \A u \in PreloadSet : Ok(installs[i].got[u])
C4_FailedPreloadFailsInstall == [](C4_FailedState) /\ [][C4_FailedStep]_vars

\* an install failed over entries an earlier install had stored, which
\* are still the earlier install's
C4_Witness ==
  /\ installs[1].pc = "installed"
  /\ installs[2].pc = "redundant"
  /\ installs[2].keysAtOpen = PreloadSet
  /\ \A u \in PreloadSet : store[CACHE_NAME][u] = Version(1)

\* C5: when the network fetch of a request that matched no entry fails,
\* respondWith's promise rejects with that failure after the one fetch.
C5_MissNetworkFailureRejects ==
  \A f \in FetchIds :
    (Miss(f) /\ fetches[f].netOut = NetError) =>
      /\ fetches[f].pc = "rejected"
      /\ fetches[f].answer = NetError
      /\ fetches[f].netCalls = 1

C5_Witness ==
  \E f \in FetchIds :
    fetches[f].pc = "rejected" /\ fetches[f].seen = {} /\ fetches[f].netOut = NetError

AllOk(inst) == \A u \in PreloadSet : Ok(inst.got[u])

\* C6: no step of a fetch handler changes the partitions or their entries,
\* so when a request missed and was answered from the network and the same
\* request later hits, the entry it hits is one an install has stored.
C6_FetchStep == fetches' # fetches => (store' = store /\ cacheNames' = cacheNames)
C6_RepeatMiss ==
  \A f, g \in FetchIds :
    (f # g /\ fetches[f].req = fetches[g].req /\ Miss(f) /\ Settled(f) /\ Hit(g)) =>
      \E i \in InstallIds :
        /\ installs[i].stored # {}
        /\ fetches[g].seen = {<<CACHE_NAME, Version(i)>>}
C6_FetchLeavesCache == [](C6_RepeatMiss) /\ [][C6_FetchStep]_vars

\* a GET that missed and got an ok response from the network, repeated,
\* missed again
C6_Witness ==
  /\ fetches[1].req = [method |-> "GET", url |-> "/"]
  /\ fetches[1].pc = "answered" /\ Miss(1) /\ fetches[1].answer = Live
  /\ fetches[2].req = fetches[1].req
  /\ Miss(2)
  /\ \A i \in InstallIds : installs[i].stored = {}

\* C7: of two handlers of distinct requests, one whose lookup hit and one
\* whose lookup missed, the first is answered with a stored response that
\* matched it and sends nothing to the network, and the second sends its
\* own request once and settles with what that fetch yields, in every
\* state of every interleaving.
C7_IndependentHandlers ==
  \A f, g \in FetchIds :
    (f # g /\ fetches[f].req # fetches[g].req /\ Hit(f) /\ Miss(g)) =>
      /\ fetches[f].pc = "answered"
      /\ fetches[f].answer \in {p[2] : p \in fetches[f].seen}
      /\ fetches[f].netCalls = 0 /\ fetches[f].netOut = Pending
      /\ fetches[g].netCalls = 1
      /\ fetches[g].netReq = fetches[g].req
      /\ IF Settled(g) THEN fetches[g].answer = fetches[g].netOut
                       ELSE fetches[g].answer = Pending

\* the hit, dispatched second, is answered while the miss, dispatched
\* first, still waits for the network
C7_Witness ==
  /\ fetches[1].pc = "fetch" /\ Miss(1)
  /\ fetches[2].pc = "answered" /\ Hit(2)
  /\ fetches[1].req.method = "POST" /\ fetches[2].req.method = "GET"

\* C8: an install that opened the partition when it held exactly the two
\* preload keys rejects only if one of its own preload fetches failed, and
\* the partition's key set stays exactly the two preload keys.
C8_ReinstallIdempotent ==
  \A i \in InstallIds :
    installs[i].keysAtOpen = PreloadSet =>
      /\ DOMAIN store[CACHE_NAME] = PreloadSet
      /\ installs[i].pc = "rejected" => PreloadFailed(installs[i])
      /\ installs[i].pc = "fulfilled" => installs[i].stored = PreloadSet

\* the second install ran over the first one's entries, succeeded and
\* replaced their responses under the same two keys
C8_Witness ==
  /\ installs[2].keysAtOpen = PreloadSet
  /\ installs[2].pc = "installed"
  /\ DOMAIN store[CACHE_NAME] = PreloadSet
  /\ \A u \in PreloadSet : store[CACHE_NAME][u] = Version(2)

\* C9 as stated: every change of the partitions is a step of an install,
\* taken while no other install has its open or addAll pending, and the
\* entries change only while no fetch handler's lookup is pending.
C9_WriteStep(i) ==
  /\ installs'[i] # installs[i]
  /\ fetches' = fetches
  /\ \A j \in InstallIds \ {i} : installs[j].pc \notin {"open", "addAll"}
C9_NoOverlapStep ==
  (store' # store \/ cacheNames' # cacheNames) =>
    /\ \E i \in InstallIds : C9_WriteStep(i)
    /\ store' # store => \A f \in FetchIds : fetches[f].pc # "match"
C9_Original == [][C9_NoOverlapStep]_vars

\* C9 amended: every change of the partitions is a step of an install,
\* taken while no other install has its open or addAll pending, and a
\* change of entries is the one step in which addAll puts both fetched
\* responses under the two preload keys and leaves every other entry alone.
C9_AtomicStep ==
  (store' # store \/ cacheNames' # cacheNames) =>
    \E i \in InstallIds :
      /\ C9_WriteStep(i)
      /\ store' # store =>
            /\ installs[i].pc = "addAll" /\ installs'[i].pc = "fulfilled"
            /\ cacheNames' = cacheNames
            /\ store'[OtherCache] = store[OtherCache]
            /\ DOMAIN store'[CACHE_NAME] = (DOMAIN store[CACHE_NAME]) \cup PreloadSet
            /\ \A u \in DOMAIN store'[CACHE_NAME] :
                  store'[CACHE_NAME][u] =
                    IF u \in PreloadSet THEN installs[i].got[u] ELSE store[CACHE_NAME][u]
C9_OnlyInstallWritesAtomically == [][C9_AtomicStep]_vars

\* an install is about to put its batch while a lookup is pending
C9_Witness ==
  \E i \in InstallIds, f \in FetchIds :
    /\ installs[i].pc = "addAll" /\ AllOk(installs[i])
    /\ fetches[f].pc = "match"

\* C10: an install is reported installed only from the state in which its
\* addAll has fulfilled, both responses fetched ok and stored, and is
\* reported redundant only after open or addAll has rejected; until then
\* it stays in the installing states.
C10_State ==
  \A i \in InstallIds :
    /\ installs[i].pc = "fulfilled" =>
          /\ AllOk(installs[i]) /\ installs[i].stored = PreloadSet
          /\ \A u \in PreloadSet : store[CACHE_NAME][u] = installs[i].got[u]
    /\ installs[i].pc = "installed" => installs[i].stored = PreloadSet
    /\ installs[i].pc = "redundant" => installs[i].stored = {}
    /\ installs[i].pc = "rejected" =>
          \/ PreloadFailed(installs[i])
          \/ \A u \in PreloadSet : installs[i].got[u] = Pending
C10_Step ==
  \A i \in InstallIds :
    /\ (installs'[i].pc = "installed" /\ installs[i].pc # "installed") =>
          installs[i].pc = "fulfilled"
    /\ (installs'[i].pc = "redundant" /\ installs[i].pc # "redundant") =>
          installs[i].pc = "rejected"
    /\ (installs'[i].pc = "rejected" /\ installs[i].pc # "rejected") =>
          \/ installs[i].pc = "open"
          \/ installs[i].pc = "addAll" /\ PreloadFailed(installs[i])
C10_InstallHeldOpen == [](C10_State) /\ [][C10_Step]_vars

\* one install was reported failed and the next one installed
C10_Witness ==
  /\ installs[1].pc = "redundant"
  /\ installs[2].pc = "installed"
  /\ \A u \in PreloadSet : store[CACHE_NAME][u] = Version(2)

\* C11: under fair scheduling, no handler stays for ever in its lookup or
\* waiting for a network fetch that has not hung (it settles unless its own
\* fetch hangs), whatever the other handlers do, hanging included; and a
\* handler whose fetch hangs stays pending for ever, unanswered.
C11_HungStays ==
  \A f \in FetchIds :
    fetches[f].pc = "hung" =>
      fetches'[f].pc = "hung" /\ fetches'[f].answer = Pending
C11_OthersProgress ==
  \A f \in FetchIds : []<>(fetches[f].pc \notin {"match", "fetch"})
C11_HungBlocksOnlyItself == [][C11_HungStays]_vars /\ C11_OthersProgress

\* the first request hangs in the network; the second, dispatched after
\* it, has been answered from the cache
C11_Witness ==
  /\ fetches[1].pc = "hung" /\ fetches[1].answer = Pending
  /\ fetches[2].pc = "answered" /\ Hit(2)

\* C12 as stated: a handler is answered from the cache only with the
\* response of a matching entry of expense-cache-v1, and a handler whose
\* request matches no entry of expense-cache-v1 goes to the network, also
\* when another partition of the origin holds a matching entry.
C12_LookupConfined ==
  \A f \in FetchIds :
    LookedUp(f) =>
      IF \E p \in fetches[f].seen : p[1] = CACHE_NAME
        THEN /\ fetches[f].netCalls = 0
             /\ \E p \in fetches[f].seen :
                   p[1] = CACHE_NAME /\ fetches[f].answer = p[2]
        ELSE fetches[f].netCalls = 1

\* C13: a handler sends at most one network fetch, and only once its lookup
\* has settled with no match; a handler whose lookup matched sends none; an
\* answer comes either from the cache or from the network, never both; and
\* a settled handler never changes again.
C13_State ==
  \A f \in FetchIds :
    /\ fetches[f].netCalls <= 1
    /\ fetches[f].netCalls = 1 => LookedUp(f) /\ fetches[f].seen = {}
    /\ fetches[f].pc \in {"idle", "match"} =>
          /\ fetches[f].netCalls = 0
          /\ fetches[f].answer = Pending /\ fetches[f].netOut = Pending
    /\ fetches[f].seen # {} => fetches[f].netCalls = 0 /\ fetches[f].netOut = Pending
    /\ fetches[f].pc = "answered" =>
          \/ fetches[f].seen # {} /\ fetches[f].netOut = Pending
          \/ fetches[f].seen = {} /\ fetches[f].netOut = fetches[f].answer
C13_Step ==
  \A f \in FetchIds :
    /\ Settled(f) => fetches'[f] = fetches[f]
    /\ fetches'[f].netCalls >= fetches[f].netCalls
    /\ fetches'[f].netCalls > fetches[f].netCalls => fetches[f].pc = "match"
C13_OnePathOneOutcome == [](C13_State) /\ [][C13_Step]_vars

\* one handler rejected after its single network fetch failed, another
\* was answered from the cache without any
C13_Witness ==
  /\ fetches[1].pc = "rejected" /\ fetches[1].netCalls = 1
  /\ fetches[2].pc = "answered" /\ fetches[2].seen # {} /\ fetches[2].netCalls = 0

\* C14: in every state the partition expense-cache-v1 holds neither or both
\* of the preload keys.
C14_NeitherOrBoth ==
  LET held == (DOMAIN store[CACHE_NAME]) \cap PreloadSet
  IN held = {} \/ held = PreloadSet

\* in the middle of an install, one preload fetch back and the other not,
\* with a lookup pending: the partition holds neither entry
C14_Witness ==
  \E i \in InstallIds, f \in FetchIds :
    /\ installs[i].pc = "addAll"
    /\ installs[i].got["/"] = Version(i)
    /\ installs[i].got["/static/style.css"] = Pending
    /\ fetches[f].pc = "match"
    /\ DOMAIN store[CACHE_NAME] = {}

\* C15: every response stored in expense-cache-v1 is an ok response that a
\* fulfilled install fetched; an install one of whose fetches got a non-ok
\* status stores nothing and does not fulfil; every entry of the partition
\* that a lookup matched holds an ok response.
C15_OnlyOkStored ==
  /\ \A u \in DOMAIN store[CACHE_NAME] :
        /\ Ok(store[CACHE_NAME][u])
        /\ \E i \in InstallIds :
              installs[i].stored = PreloadSet /\ store[CACHE_NAME][u] = Version(i)
  /\ \A i \in InstallIds :
        (\E u \in PreloadSet : installs[i].got[u] = NotFound) =>
          installs[i].stored = {} /\ installs[i].pc \in {"addAll", "rejected"}
  /\ \A f \in FetchIds :
        \A p \in fetches[f].seen : p[1] = CACHE_NAME => Ok(p[2])

\* an install whose second preload fetch got a 404 rejected, nothing
\* stored
C15_Witness ==
  /\ installs[1].pc = "rejected"
  /\ installs[1].got["/"] = Version(1)
  /\ installs[1].got["/static/style.css"] = NotFound
  /\ Has(cacheNames, CACHE_NAME)
  /\ DOMAIN store[CACHE_NAME] = {}

\* C16: no step removes the partition expense-cache-v1 or a key from it,
\* and a request that the lookup would answer from the cache before a step
\* is one it would answer from the cache after it.
C16_Step ==
  /\ Has(cacheNames, CACHE_NAME) => Has(cacheNames', CACHE_NAME)
  /\ (DOMAIN store[CACHE_NAME]) \subseteq (DOMAIN store'[CACHE_NAME])
  /\ \A req \in Requests :
        Truthy(CachesMatch(cacheNames, store, req)) =>
          Truthy(CachesMatch(cacheNames', store', req))
C16_KeysNeverShrink == [][C16_Step]_vars

\* after a successful install, a second install whose caches.open rejected
\* and a handler answered from the first install's entry
C16_Witness ==
  /\ installs[1].pc = "installed"
  /\ installs[2].pc = "redundant" /\ installs[2].keysAtOpen = {}
  /\ \E f \in FetchIds : fetches[f].pc = "answered" /\ fetches[f].answer = Version(1)
  /\ DOMAIN store[CACHE_NAME] = PreloadSet
====
